---- MODULE Spec2Model ----
(***************************************************************************)
(* CHIP-8 interpreter of bennystarfighter/chip8-rust: the VM of            *)
(* src/src/chip8.rs (state, fetch, decode, one operator per opcode         *)
(* handler) and the driver loop of src/src/main.rs (key events, cycle and  *)
(* render, timer tick).                                                    *)
(*                                                                         *)
(* Representation.  The two large arrays of the VM are kept sparsely, with *)
(* the same contents as the Rust arrays:                                   *)
(*   memory  : [u8; 4096]  is the function holding the non-zero bytes; the *)
(*             byte at address a is MemRead(memory, a), 0 where absent;    *)
(*   display : [u8; 2048]  is the set of cells holding 1 (a cell only ever *)
(*             holds 0 or 1: it starts 0 and is changed by `^= bit` and by *)
(*             the clear); the cell c holds Pixel(display, c).             *)
(* Every index into them is checked against the array length where the     *)
(* Rust code indexes, so an out-of-range index panics as it does there.    *)
(*                                                                         *)
(* A panic ends the process.  The VM record keeps, in `status`, whether    *)
(* the process runs or which panic ended it, and the fields as they were   *)
(* when the panic was raised.                                              *)
(***************************************************************************)
EXTENDS Integers, Sequences, FiniteSets, TLC

VARIABLES
    vm,               \* the VM struct (chip8.rs:9-25) and the process status
    overflow_checks,  \* build: TRUE = debug (arithmetic overflow panics),
                      \*        FALSE = release (arithmetic overflow wraps)
    prev,             \* history: when the last step of the driver loop was a
                      \* cycle, the VM as it was when that cycle began;
                      \* NoCycle otherwise
    hist,             \* history: the last call not yet returned from, the
                      \* last store of registers whose bytes are still in
                      \* place, and the ticks and cycles since the delay timer
                      \* was last set
    canvas            \* the window: the frame draw_display presented last,
                      \* and whether the last step of the loop presented one

vars == <<vm, overflow_checks, prev, hist, canvas>>

NoCycle == [status |-> "none"]

----------------------------------------------------------------------------
(* Sizes of the machine *)

MemSize == 4096
ProgramStart == 512
DisplayWidth == 64
DisplayHeight == 32
NumRegs == 16
StackSize == 16
NumKeys == 16
FontSize == 80
U8 == 256
U16 == 65536

FONT_BITMAP ==
    << \hF0, \h90, \h90, \h90, \hF0,
       \h20, \h60, \h20, \h20, \h70,
       \hF0, \h10, \hF0, \h80, \hF0,
       \hF0, \h10, \hF0, \h10, \hF0,
       \h90, \h90, \hF0, \h10, \h10,
       \hF0, \h80, \hF0, \h10, \hF0,
       \hF0, \h80, \hF0, \h90, \hF0,
       \hF0, \h10, \h20, \h40, \h40,
       \hF0, \h90, \hF0, \h90, \hF0,
       \hF0, \h90, \hF0, \h10, \hF0,
       \hF0, \h90, \hF0, \h90, \h90,
       \hE0, \h90, \hE0, \h90, \hE0,
       \hF0, \h80, \h80, \h80, \hF0,
       \hE0, \h90, \h90, \h90, \hE0,
       \hF0, \h80, \hF0, \h80, \hF0,
       \hF0, \h80, \hF0, \h80, \h80 >>

----------------------------------------------------------------------------
(* Bit operations of the Rust integer types *)

RECURSIVE BitAnd(_, _)
BitAnd(a, b) ==
    IF a = 0 \/ b = 0 THEN 0
    ELSE (a % 2) * (b % 2) + 2 * BitAnd(a \div 2, b \div 2)

RECURSIVE BitOr(_, _)
BitOr(a, b) ==
    IF a = 0 THEN b
    ELSE IF b = 0 THEN a
    ELSE (IF a % 2 = 1 \/ b % 2 = 1 THEN 1 ELSE 0) + 2 * BitOr(a \div 2, b \div 2)

RECURSIVE BitXor(_, _)
BitXor(a, b) ==
    IF a = 0 THEN b
    ELSE IF b = 0 THEN a
    ELSE ((a + b) % 2) + 2 * BitXor(a \div 2, b \div 2)

\* a >> n
Shr(a, n) == a \div (2 ^ n)

\* a << n on a u8 or u16 (bits shifted out are dropped)
Shl(a, n, width) == (a * (2 ^ n)) % width

----------------------------------------------------------------------------
(* The arrays kept sparsely *)

MemRead(mem, a) == IF a \in DOMAIN mem THEN mem[a] ELSE 0

MemWrite(mem, a, b) ==
    IF b = 0
    THEN [c \in (DOMAIN mem) \ {a} |-> mem[c]]
    ELSE [c \in (DOMAIN mem) \cup {a} |-> IF c = a THEN b ELSE mem[c]]

Pixel(display, c) == IF c \in display THEN 1 ELSE 0

\* display[c] = value, value in {0, 1}
SetPixel(display, c, value) ==
    IF value = 1 THEN display \cup {c} ELSE display \ {c}

----------------------------------------------------------------------------
(* Panics and checked arithmetic *)

Panic(s, why) == [s EXCEPT !.status = why]

\* self.pc += k
advance(s, k) ==
    IF s.pc + k >= U16 /\ overflow_checks
    THEN Panic(s, "overflow")
    ELSE [s EXCEPT !.pc = (s.pc + k) % U16]

----------------------------------------------------------------------------
(* Construction *)

new ==
    [ op       |-> 0,
      v        |-> [r \in 0..(NumRegs - 1) |-> 0],
      i        |-> 0,
      pc       |-> ProgramStart,
      stack    |-> [k \in 0..(StackSize - 1) |-> 0],
      sp       |-> 0,
      delay    |-> 0,
      sound    |-> 0,
      memory   |-> <<>>,
      display  |-> {},
      drawflag |-> FALSE,
      keypad   |-> [k \in 0..(NumKeys - 1) |-> FALSE],
      status   |-> "running" ]

\* for k in 0..Len(bytes): memory[base + k] = bytes[k]
MemCopy(mem, base, bytes) ==
    LET range == base..(base + Len(bytes) - 1)
    IN  [c \in ((DOMAIN mem) \ range) \cup {a \in range : bytes[a - base + 1] # 0} |->
            IF c \in range THEN bytes[c - base + 1] ELSE mem[c]]

init_font_set(s) == [s EXCEPT !.memory = MemCopy(@, 0, SubSeq(FONT_BITMAP, 1, FontSize))]

load_rom(s, rom_content) ==
    IF Len(rom_content) > MemSize - ProgramStart
    THEN Panic(s, "rom too large")
    ELSE [s EXCEPT !.memory = MemCopy(@, ProgramStart, rom_content)]

----------------------------------------------------------------------------
(* Opcode handlers: each maps the VM before the instruction to the VM      *)
(* after it.                                                               *)

\* mutant of _0x00e0: the program counter is not advanced
_0x00e0_no_advance(s) == [s EXCEPT !.display = {}]

_0x00e0(s) == advance([s EXCEPT !.display = {}], 2)

\* mutant of _0x00ee: returns to the call itself, not to the word after it
_0x00ee_no_skip(s) ==
    IF s.sp >= StackSize THEN Panic(s, "bounds")
    ELSE LET s1 == [s EXCEPT !.pc = s.stack[s.sp]]
         IN  IF s1.sp = 0
             THEN IF overflow_checks
                  THEN Panic(s1, "overflow")
                  ELSE [s1 EXCEPT !.sp = U16 - 1]
             ELSE [s1 EXCEPT !.sp = s1.sp - 1]

_0x00ee(s) ==
    IF s.sp >= StackSize THEN Panic(s, "bounds")
    ELSE LET ret == s.stack[s.sp] + 2
         IN  IF ret >= U16 /\ overflow_checks THEN Panic(s, "overflow")
             ELSE LET s1 == [s EXCEPT !.pc = ret % U16]
                  IN  IF s1.sp = 0
                      THEN IF overflow_checks
                           THEN Panic(s1, "overflow")
                           ELSE [s1 EXCEPT !.sp = U16 - 1]
                      ELSE [s1 EXCEPT !.sp = s1.sp - 1]

_1nnn(s, nnn) == [s EXCEPT !.pc = nnn]

_2nnn(s, nnn) ==
    IF s.sp + 1 >= U16 /\ overflow_checks THEN Panic(s, "overflow")
    ELSE LET s1 == [s EXCEPT !.sp = (s.sp + 1) % U16]
         IN  IF s1.sp >= StackSize THEN Panic(s1, "bounds")
             ELSE [s1 EXCEPT !.stack[s1.sp] = s1.pc, !.pc = nnn]

_3xkk(s, x, kk) == IF s.v[x] = kk THEN advance(s, 4) ELSE advance(s, 2)

_4xkk(s, x, kk) == IF s.v[x] # kk THEN advance(s, 4) ELSE advance(s, 2)

_5xy0(s, x, y) == IF x = y THEN advance(s, 4) ELSE advance(s, 2)

_6xkk(s, x, kk) == advance([s EXCEPT !.v[x] = kk], 2)

_7xkk(s, x, kk) == advance([s EXCEPT !.v[x] = (s.v[x] + kk) % U8], 2)

_8xy0(s, x, y) == advance([s EXCEPT !.v[x] = s.v[y]], 2)

_8xy1(s, x, y) == advance([s EXCEPT !.v[x] = BitOr(s.v[x], s.v[y])], 2)

_8xy2(s, x, y) == advance([s EXCEPT !.v[x] = BitAnd(s.v[x], s.v[y])], 2)

_8xy3(s, x, y) == advance([s EXCEPT !.v[x] = BitXor(s.v[x], s.v[y])], 2)

_8xy4(s, x, y) ==
    LET sum    == s.v[x] + s.v[y]
        result == sum % U8
        carry  == sum >= U8
        s1     == [s EXCEPT !.v[15] = IF carry THEN 1 ELSE 0]
        s2     == [s1 EXCEPT !.v[x] = result]
    IN  advance(s2, 2)

_8xy5(s, x, y) ==
    LET diff   == s.v[x] - s.v[y]
        result == diff % U8
        borrow == diff < 0
        s1     == [s EXCEPT !.v[15] = IF borrow THEN 0 ELSE 1]
        s2     == [s1 EXCEPT !.v[x] = result]
    IN  advance(s2, 2)

_8xy6(s, x, y) ==
    LET s1 == [s EXCEPT !.v[x] = Shr(s.v[y], 1)]
        s2 == [s1 EXCEPT !.v[15] = BitAnd(s1.v[y], 1)]
    IN  advance(s2, 2)

_8xy7(s, x, y) ==
    LET s1     == [s EXCEPT !.v[15] = IF s.v[y] > s.v[x] THEN 1 ELSE 0]
        result == (s1.v[y] - s1.v[x]) % U8
        s2     == [s1 EXCEPT !.v[x] = result]
    IN  advance(s2, 2)

_8xye(s, x, y) ==
    LET s1 == [s EXCEPT !.v[x] = Shl(s.v[y], 1, U8)]
        s2 == [s1 EXCEPT !.v[15] = BitAnd(s1.v[y], 128)]
    IN  advance(s2, 2)

_9xy0(s, x, y) == IF s.v[x] = s.v[y] THEN advance(s, 4) ELSE advance(s, 2)

_annn(s, nnn) == advance([s EXCEPT !.i = nnn], 2)

_bnnn(s, nnn) == advance([s EXCEPT !.pc = nnn + s.v[0]], 2)

\* rnd is the byte random::<u8>() returns
_cxkk(s, x, kk, rnd) == advance([s EXCEPT !.v[x] = BitAnd(rnd, kk)], 2)

DisplaySize == DisplayWidth * DisplayHeight

\* mutant of CellIndex: the column does not wrap at the right edge
CellIndex_no_wrap(x_pos, y_pos, y_line, x_line) ==
    (((y_pos + y_line) % DisplayHeight) * DisplayWidth) + (x_pos + x_line)

\* the framebuffer cell of sprite row y_line, bit column x_line
CellIndex(x_pos, y_pos, y_line, x_line) ==
    (((y_pos + y_line) % DisplayHeight) * DisplayWidth) + ((x_pos + x_line) % DisplayWidth)

\* (pixel >> (7 - x_line)) & 1
SpritePixel(pixel, x_line) == BitAnd(Shr(pixel, 7 - x_line), 1)

\* the body of the inner loop, for x_line in 0..8
RECURSIVE dxyn_cols(_, _, _, _, _, _)
dxyn_cols(s, x_pos, y_pos, y_line, pixel, x_line) ==
    IF x_line = 8 \/ s.status # "running" THEN s
    ELSE LET index        == CellIndex(x_pos, y_pos, y_line, x_line)
             sprite_pixel == SpritePixel(pixel, x_line)
         IN  IF index >= DisplaySize THEN Panic(s, "bounds")
             ELSE LET screen_pixel == Pixel(s.display, index)
                      s1 == IF screen_pixel = 1 /\ sprite_pixel = 1
                            THEN [s EXCEPT !.v[15] = 1]
                            ELSE s
                      s2 == [s1 EXCEPT !.display =
                                SetPixel(@, index, BitXor(screen_pixel, sprite_pixel))]
                  IN  dxyn_cols(s2, x_pos, y_pos, y_line, pixel, x_line + 1)

\* the outer loop, for y_line in 0..height.  (self.i + y_line cannot overflow
\* u16 before memory[self.i + 0] is out of range.)
RECURSIVE dxyn_rows(_, _, _, _, _)
dxyn_rows(s, x_pos, y_pos, height, y_line) ==
    IF y_line = height \/ s.status # "running" THEN s
    ELSE IF s.i + y_line >= MemSize THEN Panic(s, "bounds")
    ELSE dxyn_rows(
             dxyn_cols(s, x_pos, y_pos, y_line, MemRead(s.memory, s.i + y_line), 0),
             x_pos, y_pos, height, y_line + 1)

\* mutant of _dxyn: the collision flag is not reset before the loop
_dxyn_flag_kept(s, x, y) ==
    LET x_pos  == s.v[x]
        y_pos  == s.v[y]
        height == BitAnd(s.op, 15)
        s1     == dxyn_rows(s, x_pos, y_pos, height, 0)
    IN  IF s1.status # "running" THEN s1
        ELSE advance([s1 EXCEPT !.drawflag = TRUE], 2)

\* mutant of _dxyn: the redraw flag is not set
_dxyn_no_flag(s, x, y) ==
    LET x_pos  == s.v[x]
        y_pos  == s.v[y]
        height == BitAnd(s.op, 15)
        s0     == [s EXCEPT !.v[15] = 0]
        s1     == dxyn_rows(s0, x_pos, y_pos, height, 0)
    IN  IF s1.status # "running" THEN s1 ELSE advance(s1, 2)

_dxyn(s, x, y) ==
    LET x_pos  == s.v[x]
        y_pos  == s.v[y]
        height == BitAnd(s.op, 15)
        s1     == dxyn_rows([s EXCEPT !.v[15] = 0], x_pos, y_pos, height, 0)
    IN  IF s1.status # "running" THEN s1
        ELSE advance([s1 EXCEPT !.drawflag = TRUE], 2)

_ex9e(s, x) ==
    IF s.v[x] >= NumKeys THEN Panic(s, "bounds")
    ELSE IF s.keypad[s.v[x]] = TRUE THEN advance(s, 4)
    ELSE advance(s, 2)

_exa1(s, x) ==
    IF s.v[x] >= NumKeys THEN Panic(s, "bounds")
    ELSE IF ~s.keypad[s.v[x]] THEN advance(s, 4)
    ELSE advance([s EXCEPT !.keypad[s.v[x]] = FALSE], 2)

_fx07(s, x) == advance([s EXCEPT !.v[x] = s.delay], 2)

\* `key as u8`
BoolAsU8(key) == IF key THEN 1 ELSE 0

\* for key in self.keypad (the loop runs over a copy, keys, of the array)
RECURSIVE fx0a_loop(_, _, _, _)
fx0a_loop(s, keys, x, k) ==
    IF k = NumKeys \/ s.status # "running" THEN s
    ELSE fx0a_loop(
             IF keys[k] = TRUE
             THEN advance([s EXCEPT !.v[x] = BoolAsU8(keys[k])], 2)
             ELSE s,
             keys, x, k + 1)

_fx0a(s, x) ==
    LET s1 == fx0a_loop(s, s.keypad, x, 0)
    IN  IF s1.status # "running" THEN s1
        ELSE IF s1.v[x] >= NumKeys THEN Panic(s1, "bounds")
        ELSE [s1 EXCEPT !.keypad[s1.v[x]] = FALSE]

_fx15(s, x) == advance([s EXCEPT !.delay = s.v[x]], 2)

_fx18(s, x) == advance([s EXCEPT !.sound = s.v[x]], 2)

_fx1e(s, x) ==
    IF s.i + s.v[x] >= U16 /\ overflow_checks THEN Panic(s, "overflow")
    ELSE advance([s EXCEPT !.i = (s.i + s.v[x]) % U16], 2)

\* the product is computed in u8, then widened
_fx29(s, x) ==
    IF s.v[x] * 5 >= U8 /\ overflow_checks THEN Panic(s, "overflow")
    ELSE advance([s EXCEPT !.i = (s.v[x] * 5) % U8], 2)

_fx33(s, x) ==
    IF s.i >= MemSize THEN Panic(s, "bounds")
    ELSE LET s1 == [s EXCEPT !.memory = MemWrite(@, s.i, s.v[x] \div 100)]
         IN  IF s.i + 1 >= MemSize THEN Panic(s1, "bounds")
             ELSE LET s2 == [s1 EXCEPT !.memory =
                                MemWrite(@, s.i + 1, (s.v[x] \div 10) % 10)]
                  IN  IF s.i + 2 >= MemSize THEN Panic(s2, "bounds")
                      ELSE advance(
                               [s2 EXCEPT !.memory =
                                   MemWrite(@, s.i + 2, (s.v[x] % 100) % 10)], 2)

\* for register_index in 0..x.  (self.i + register_index cannot overflow u16
\* before memory[self.i + 0] is out of range.)
RECURSIVE fx55_loop(_, _, _)
fx55_loop(s, x, register_index) ==
    IF register_index >= x THEN s
    ELSE IF s.i + register_index >= MemSize THEN Panic(s, "bounds")
    ELSE fx55_loop(
             [s EXCEPT !.memory = MemWrite(@, s.i + register_index, s.v[register_index])],
             x, register_index + 1)

\* mutant of _fx55: the range of registers includes Vx
_fx55_inclusive(s, x) ==
    LET s1 == fx55_loop(s, x + 1, 0)
    IN  IF s1.status # "running" THEN s1 ELSE advance(s1, 2)

_fx55(s, x) ==
    LET s1 == fx55_loop(s, x, 0)
    IN  IF s1.status # "running" THEN s1 ELSE advance(s1, 2)

RECURSIVE fx65_loop(_, _, _)
fx65_loop(s, x, register_index) ==
    IF register_index >= x THEN s
    ELSE IF s.i + register_index >= MemSize THEN Panic(s, "bounds")
    ELSE fx65_loop(
             [s EXCEPT !.v[register_index] = MemRead(s.memory, s.i + register_index)],
             x, register_index + 1)

_fx65(s, x) ==
    LET s1 == fx65_loop(s, x, 0)
    IN  IF s1.status # "running" THEN s1 ELSE advance(s1, 2)

----------------------------------------------------------------------------
(* Decode and dispatch *)

\* The arm of the two-level match that the word op selects: the name of the
\* handler it calls, "nop" for an arm `_ => {}`, "panic" for an arm that
\* panics with "Unknown opcode".
decode(op) ==
    LET family == BitAnd(op, \hF000)
        low8   == BitAnd(op, \h00FF)
        low4   == BitAnd(op, \h000F)
    IN  CASE family = \h0000 ->
                 (CASE low8 = \hE0 -> "_0x00e0"
                    [] low8 = \hEE -> "_0x00ee"
                    [] OTHER       -> "nop")
          [] family = \h1000 -> "_1nnn"
          [] family = \h2000 -> "_2nnn"
          [] family = \h3000 -> "_3xkk"
          [] family = \h4000 -> "_4xkk"
          [] family = \h5000 -> "_5xy0"
          [] family = \h6000 -> "_6xkk"
          [] family = \h7000 -> "_7xkk"
          [] family = \h8000 ->
                 (CASE low4 = 0 -> "_8xy0"
                    [] low4 = 1 -> "_8xy1"
                    [] low4 = 2 -> "_8xy2"
                    [] low4 = 3 -> "_8xy3"
                    [] low4 = 4 -> "_8xy4"
                    [] low4 = 5 -> "_8xy5"
                    [] low4 = 6 -> "_8xy6"
                    [] low4 = 7 -> "_8xy7"
                    [] low4 = 8 -> "_8xye"
                    [] OTHER    -> "nop")
          [] family = \h9000 -> "_9xy0"
          [] family = \hA000 -> "_annn"
          [] family = \hB000 -> "_bnnn"
          [] family = \hC000 -> "_cxkk"
          [] family = \hD000 -> "_dxyn"
          [] family = \hE000 ->
                 (CASE low8 = \h9E -> "_ex9e"
                    [] low8 = \hA1 -> "_exa1"
                    [] OTHER       -> "nop")
          [] family = \hF000 ->
                 (CASE low8 = \hA1 -> "_exa1"
                    [] low8 = \h07 -> "_fx07"
                    [] low8 = \h0A -> "_fx0a"
                    [] low8 = \h15 -> "_fx15"
                    [] low8 = \h18 -> "_fx18"
                    [] low8 = \h1E -> "_fx1e"
                    [] low8 = \h29 -> "_fx29"
                    [] low8 = \h33 -> "_fx33"
                    [] low8 = \h55 -> "_fx55"
                    [] low8 = \h65 -> "_fx65"
                    [] OTHER       -> "panic")
          [] OTHER -> "panic"

\* the decoded fields
FieldX(op) == Shr(BitAnd(op, \h0F00), 8)
FieldY(op) == Shr(BitAnd(op, \h00F0), 4)
FieldNN(op) == BitAnd(op, \h00FF)
FieldNNN(op) == BitAnd(op, \h0FFF)

parse_op_code(s, rnd) ==
    LET x   == FieldX(s.op)
        y   == FieldY(s.op)
        nn  == FieldNN(s.op)
        nnn == FieldNNN(s.op)
        arm == decode(s.op)
    IN  CASE arm = "_0x00e0" -> _0x00e0(s)
          [] arm = "_0x00ee" -> _0x00ee(s)
          [] arm = "_1nnn"   -> _1nnn(s, nnn)
          [] arm = "_2nnn"   -> _2nnn(s, nnn)
          [] arm = "_3xkk"   -> _3xkk(s, x, nn)
          [] arm = "_4xkk"   -> _4xkk(s, x, nn)
          [] arm = "_5xy0"   -> _5xy0(s, x, y)
          [] arm = "_6xkk"   -> _6xkk(s, x, nn)
          [] arm = "_7xkk"   -> _7xkk(s, x, nn)
          [] arm = "_8xy0"   -> _8xy0(s, x, y)
          [] arm = "_8xy1"   -> _8xy1(s, x, y)
          [] arm = "_8xy2"   -> _8xy2(s, x, y)
          [] arm = "_8xy3"   -> _8xy3(s, x, y)
          [] arm = "_8xy4"   -> _8xy4(s, x, y)
          [] arm = "_8xy5"   -> _8xy5(s, x, y)
          [] arm = "_8xy6"   -> _8xy6(s, x, y)
          [] arm = "_8xy7"   -> _8xy7(s, x, y)
          [] arm = "_8xye"   -> _8xye(s, x, y)
          [] arm = "_9xy0"   -> _9xy0(s, x, y)
          [] arm = "_annn"   -> _annn(s, nnn)
          [] arm = "_bnnn"   -> _bnnn(s, nnn)
          [] arm = "_cxkk"   -> _cxkk(s, x, nn, rnd)
          [] arm = "_dxyn"   -> _dxyn(s, x, y)
          [] arm = "_ex9e"   -> _ex9e(s, x)
          [] arm = "_exa1"   -> _exa1(s, x)
          [] arm = "_fx07"   -> _fx07(s, x)
          [] arm = "_fx0a"   -> _fx0a(s, x)
          [] arm = "_fx15"   -> _fx15(s, x)
          [] arm = "_fx18"   -> _fx18(s, x)
          [] arm = "_fx1e"   -> _fx1e(s, x)
          [] arm = "_fx29"   -> _fx29(s, x)
          [] arm = "_fx33"   -> _fx33(s, x)
          [] arm = "_fx55"   -> _fx55(s, x)
          [] arm = "_fx65"   -> _fx65(s, x)
          [] arm = "nop"     -> s
          [] OTHER           -> Panic(s, "unknown opcode")

\* the word at memory[pc], memory[pc + 1], big-endian
fetch(s) ==
    BitOr(Shl(MemRead(s.memory, s.pc), 8, U16), MemRead(s.memory, s.pc + 1))

\* whether both bytes of the fetch are inside memory
fetch_in_bounds(s) == s.pc < MemSize /\ s.pc + 1 < MemSize

\* mutant of emulate_cycle: the cycle counts the delay timer down
emulate_cycle_ticking(s, rnd) ==
    IF ~fetch_in_bounds(s) THEN Panic(s, "bounds")
    ELSE LET s1 == parse_op_code([s EXCEPT !.op = fetch(s)], rnd)
         IN  [s1 EXCEPT !.delay = IF @ > 0 THEN @ - 1 ELSE 0]

emulate_cycle(s, rnd) ==
    IF ~fetch_in_bounds(s) THEN Panic(s, "bounds")
    ELSE parse_op_code([s EXCEPT !.op = fetch(s)], rnd)

----------------------------------------------------------------------------
(* The driver loop of main *)

\* None is -1
key_mapping(keycode) ==
    CASE keycode = "Num1" -> 1
      [] keycode = "Num2" -> 2
      [] keycode = "Num3" -> 3
      [] keycode = "Num4" -> 12
      [] keycode = "Q"    -> 4
      [] keycode = "W"    -> 5
      [] keycode = "E"    -> 6
      [] keycode = "R"    -> 13
      [] keycode = "A"    -> 7
      [] keycode = "S"    -> 8
      [] keycode = "D"    -> 9
      [] keycode = "F"    -> 14
      [] keycode = "Z"    -> 10
      [] keycode = "X"    -> 0
      [] keycode = "C"    -> 11
      [] keycode = "V"    -> 15
      [] OTHER            -> -1

update_keypad(s, keycode, pressed) ==
    LET key == key_mapping(keycode)
    IN  IF key # -1 THEN [s EXCEPT !.keypad[key] = pressed] ELSE s

timer_tick(s) == IF s.delay > 0 THEN [s EXCEPT !.delay = s.delay - 1] ELSE s

\* the cells draw_display paints white (pixel_value 0xFF); all others black
draw_display(s) == { c \in s.display : Pixel(s.display, c) = 1 }

\* `if vm.drawflag { vm.draw_display(window_scale) }` after the cycle that
\* left the VM s; cv is the window before it
render(cv, s) ==
    IF s.status = "running" /\ s.drawflag
    THEN [frame |-> draw_display(s), presented |-> TRUE]
    ELSE [cv EXCEPT !.presented = FALSE]

----------------------------------------------------------------------------
(* The inputs: the ROM file, the host keys, the random bytes *)

\* the bytes of a program written as 16-bit words, high byte first
RomBytes(words) ==
    [k \in 1..(2 * Len(words)) |->
        IF k % 2 = 1 THEN words[(k + 1) \div 2] \div 256 ELSE words[k \div 2] % 256]

Ld(x, kk) == \h6000 + x * 256 + kk
Alu(x, y, n) == \h8000 + x * 256 + y * 16 + n
SetI(nnn) == \hA000 + nnn
Drw(x, y, n) == \hD000 + x * 256 + y * 16 + n
Call(nnn) == \h2000 + nnn

\* one-instruction programs, one or more for every arm of the decoder
SingleWords ==
    { \h00E0, \h00EE, \h0000, \h0123,
      \h1200, \h1000, \h1002, \h1FFE, \h1FFF,
      \h2200, \h2002, \h2FFF,
      \h3000, \h3001, \h4000, \h4001, \h5000, \h5010,
      \h6A2A, \h7001, \h9000, \h9010,
      \hA123, \hB200, \hBFFF, \hC0FF, \hC10F,
      \hD005, \hD00F, \hD000,
      \hE09E, \hE0A1, \hE000,
      \hF007, \hF00A, \hF015, \hF018, \hF01E, \hF029, \hF033,
      \hF055, \hF155, \hF065, \hF165, \hF0A1, \hF0FF }

SingleRoms == { <<w>> : w \in SingleWords }

\* two registers loaded, then one register-to-register instruction
ArithValues == {0, 1, 10, 200, 255}
ArithRegs == { <<0, 1>>, <<2, 2>>, <<15, 0>>, <<0, 15>> }
ArithOps == (0..9) \cup {14}

ArithRoms ==
    { <<Ld(r[1], a), Ld(r[2], b), Alu(r[1], r[2], n)>> :
        a \in ArithValues, b \in ArithValues, r \in ArithRegs, n \in ArithOps }

\* two registers loaded, then one conditional skip
SkipRoms ==
    { <<Ld(0, a), Ld(1, b), w>> :
        a \in {1, 10}, b \in {1, 10},
        w \in { \h5010, \h5000, \h9010, \h9000, \h3001, \h300A, \h4001, \h400A } }

\* a position and a sprite address, then the same draw three times
DrawRoms ==
    { <<Ld(0, a), Ld(1, b), SetI(nnn), Drw(0, 1, n), Drw(0, 1, n), Drw(0, 1, n)>> :
        a \in {0, 60, 255}, b \in {0, 30, 255},
        nnn \in {0, 75, \h200, \h300, \hFFE}, n \in {0, 1, 5, 15} }
    \cup
    { <<Drw(0, 1, 5), Ld(0, a), Drw(0, 1, 5), Drw(0, 1, 5), \h00E0>> : a \in {2, 4, 64} }
    \cup
    { <<Ld(15, a), SetI(5), Drw(15, 1, 5), Drw(15, 1, 5)>> : a \in {0, 1, 3} }
    \cup
    { <<Ld(3, a), Drw(3, 15, 5), Drw(3, 15, 5)>> : a \in {0, 62} }

\* registers stored to memory, changed, and loaded back
StoreRom(nnn, x, y) ==
    <<Ld(0, 17), Ld(1, 34), Ld(2, 0), Ld(3, 68), SetI(nnn), \hF055 + x * 256,
      Ld(0, 1), Ld(2, 9), \h7305, \hF065 + y * 256>>

StoreRoms ==
    UNION { { StoreRom(nnn, x, y) : nnn \in {\h300, \h20A, \hFFD, \hFFE, 78}, y \in {x, 2} } :
              x \in {0, 1, 3, 4, 15} }

\* binary-coded decimal of a register
BcdRoms ==
    { <<Ld(4, a), SetI(nnn), \hF433>> :
        a \in {0, 7, 123, 255}, nnn \in {\h300, 0, \hFFD, \hFFE, \hFFF} }

\* key instructions on a register naming a key
KeyRoms ==
    { <<Ld(5, k), w, \h1202>> :
        k \in {0, 1, 2, 16}, w \in { \hE59E, \hE5A1, \hF50A, \hF5A1 } }

\* timers set from a register and read back
TimerRoms ==
    { <<Ld(6, a), \hF615, \hF707, \hF618>> : a \in {1, 2} }
    \cup
    { <<Ld(6, 3), \hF615, \hF618, \hF707, \hF807, \h1208>> }

\* the index register: glyph address, addition
IndexRoms ==
    { <<Ld(7, a), \hF729, Drw(0, 0, 5)>> : a \in {0, 1, 15, 51, 52, 255} }
    \cup
    { <<SetI(nnn), Ld(7, a), \hF71E, \hF71E>> : nnn \in {0, \hFFF}, a \in {1, 255} }

\* jumps with an offset
JumpRoms ==
    { <<Ld(0, a), \hB000 + nnn>> : a \in {0, 2, 255}, nnn \in {\h200, \h1FE, \hEFF, \hFFF} }

\* k nested calls, each to the word after the next, with a return after every
\* call and at the end: the calls nest k deep, then the returns unwind them
NestedCalls(k) ==
    [j \in 1..(2 * k + 1) |->
        IF j % 2 = 1 /\ j < 2 * k + 1 THEN Call(ProgramStart + 2 * (j + 1)) ELSE \h00EE]

\* k calls, each to the next word, then a return
CallChain(k) ==
    [j \in 1..(k + 1) |-> IF j <= k THEN Call(ProgramStart + 2 * j) ELSE \h00EE]

\* the deepest nesting of calls a rom tries: one more than the stack holds
MaxNesting == 16

CallRoms ==
    { NestedCalls(k) : k \in {1, 2, 8, MaxNesting - 1, MaxNesting} }
    \cup
    { CallChain(k) : k \in {2, 3} }
    \cup
    { <<Call(\h204), \h1202, \h00EE>>,
      <<\h1204, \h0000, Call(\h208), \h1206, \h00EE>>,
      <<Call(\h206), Call(\h208), \h1204, Ld(0, 7), \hA300, \h00EE>> }

Roms ==
    SingleRoms \cup ArithRoms \cup SkipRoms \cup DrawRoms \cup StoreRoms \cup BcdRoms
    \cup KeyRoms \cup TimerRoms \cup IndexRoms \cup JumpRoms \cup CallRoms

\* host keys: two mapped keys and one the mapping ignores
HostKeys == {"X", "Num1", "Escape"}

\* bytes the random generator may return
RandomBytes == {0, \hA5, \hFF}

----------------------------------------------------------------------------
(* History kept for the properties: it is written by the cycle and read by  *)
(* no operator of the machine.                                              *)

NoCall == [state |-> "none", pc |-> 0, sp |-> 0]

NoStore == [valid |-> FALSE, v |-> new.v, i |-> 0, x |-> 0]

\* The call record over one cycle from VM s to VM t: a call makes its site and
\* the stack pointer before it "pending"; the next return makes a pending
\* record "returned" (any other return, or the instruction after, drops it).
track_call(c, s, t) ==
    IF ~fetch_in_bounds(s) THEN c
    ELSE LET arm == decode(t.op)
         IN  CASE arm = "_2nnn"   -> [state |-> "pending", pc |-> s.pc, sp |-> s.sp]
               [] arm = "_0x00ee" ->
                      IF c.state = "pending" THEN [c EXCEPT !.state = "returned"] ELSE NoCall
               [] OTHER           -> IF c.state = "pending" THEN c ELSE NoCall

\* The store record over one cycle from VM s to VM t: a store of registers that
\* ran to its end records the registers, the index and the count; the record
\* stays valid until the index or one of the stored bytes changes.
track_store(st, s, t) ==
    IF ~fetch_in_bounds(s) THEN st
    ELSE IF decode(t.op) = "_fx55" /\ t.status = "running"
    THEN [valid |-> TRUE, v |-> s.v, i |-> s.i, x |-> FieldX(t.op)]
    ELSE IF /\ st.valid
            /\ \/ t.i # st.i
               \/ \E r \in 0..(st.x - 1) :
                      MemRead(t.memory, st.i + r) # MemRead(s.memory, st.i + r)
    THEN NoStore
    ELSE st

\* the cycles counted between two ticks
MaxCycles == 3

NoTimer == [valid |-> FALSE, set |-> 0, ticks |-> 0, cycles |-> 0, between |-> 0]

\* The timer record over one cycle from VM s to VM t: a set-delay-timer that
\* ran records the value set; every other cycle is counted (up to MaxCycles).
track_timer(tm, s, t) ==
    IF ~fetch_in_bounds(s) THEN tm
    ELSE IF decode(t.op) = "_fx15" /\ t.status = "running"
    THEN [valid |-> TRUE, set |-> t.delay, ticks |-> 0, cycles |-> 0, between |-> 0]
    ELSE IF tm.valid /\ tm.cycles < MaxCycles
    THEN [tm EXCEPT !.cycles = tm.cycles + 1]
    ELSE tm

\* The timer record over one tick: the tick is counted (up to one more than
\* the value set), and the cycles since the tick before become `between`.
track_tick(h) ==
    IF h.timer.valid
    THEN [h EXCEPT !.timer.ticks   = IF @ <= h.timer.set THEN @ + 1 ELSE @,
                   !.timer.between = h.timer.cycles,
                   !.timer.cycles  = 0]
    ELSE h

track(h, s, t) ==
    [call  |-> track_call(h.call, s, t),
     store |-> track_store(h.store, s, t),
     timer |-> track_timer(h.timer, s, t)]

----------------------------------------------------------------------------
(* The specification *)

\* main, up to the loop: VM::new, init_font_set, load_rom
Init ==
    \E words \in Roms, checks \in BOOLEAN :
        /\ vm = load_rom(init_font_set(new), RomBytes(words))
        /\ overflow_checks = checks
        /\ prev = NoCycle
        /\ hist = [call |-> NoCall, store |-> NoStore, timer |-> NoTimer]
        /\ canvas = [frame |-> {}, presented |-> FALSE]

\* vm.emulate_cycle(); if vm.drawflag { vm.draw_display(window_scale) }
EmulateCycle ==
    /\ vm.status = "running"
    /\ \E rnd \in RandomBytes : vm' = emulate_cycle(vm, rnd)
    /\ canvas' = render(canvas, vm')
    /\ prev' = vm
    /\ hist' = track(hist, vm, vm')
    /\ UNCHANGED overflow_checks

KeyDown ==
    /\ vm.status = "running"
    /\ \E keycode \in HostKeys : vm' = update_keypad(vm, keycode, TRUE)
    /\ canvas' = [canvas EXCEPT !.presented = FALSE]
    /\ prev' = NoCycle
    /\ UNCHANGED <<overflow_checks, hist>>

KeyUp ==
    /\ vm.status = "running"
    /\ \E keycode \in HostKeys : vm' = update_keypad(vm, keycode, FALSE)
    /\ canvas' = [canvas EXCEPT !.presented = FALSE]
    /\ prev' = NoCycle
    /\ UNCHANGED <<overflow_checks, hist>>

TimerTick ==
    /\ vm.status = "running"
    /\ vm' = timer_tick(vm)
    /\ canvas' = [canvas EXCEPT !.presented = FALSE]
    /\ prev' = NoCycle
    /\ hist' = track_tick(hist)
    /\ UNCHANGED overflow_checks

Next == EmulateCycle \/ KeyDown \/ KeyUp \/ TimerTick

Spec == Init /\ [][Next]_vars

----------------------------------------------------------------------------
(* Vocabulary of the properties *)

\* the last step was a cycle (prev is the VM it started from)
Cycled == prev.status # "none"

\* the last step was a cycle whose fetch read a word (vm.op is that word)
Fetched == Cycled /\ fetch_in_bounds(prev)

\* the last step was a cycle that fetched a word of the arm `arm`
Executed(arm) == Fetched /\ decode(vm.op) = arm

Running == vm.status = "running"

----------------------------------------------------------------------------
(* C1  Stack pointer range *)

\* C1: in every state of the running machine 0 <= sp < 16; a call at sp = 15
\* and a return at sp = 0 fail instead of moving sp out of the range.
C1_StackPointerInRange ==
    /\ Running => vm.sp \in 0..(StackSize - 1)
    /\ Executed("_2nnn") /\ prev.sp = StackSize - 1 => ~Running
    /\ Executed("_0x00ee") /\ prev.sp = 0 => ~Running

----------------------------------------------------------------------------
(* C2  Call, then return *)

\* C2: a return that follows a call made at address pc with sp in 0..14, with
\* no other call or return between them, leaves the program counter at pc + 2
\* and the stack pointer at its value before the call.
C2_CallThenReturn ==
    (Executed("_0x00ee") /\ hist.call.state = "returned" /\ hist.call.sp \in 0..14)
        => /\ Running
           /\ vm.pc = hist.call.pc + 2
           /\ vm.sp = hist.call.sp

\* a return has just matched a call made at sp = 14, after the unwinding of
\* deeper calls
C2_Witness ==
    /\ Executed("_0x00ee")
    /\ hist.call.state = "returned"
    /\ hist.call.sp = 14
    /\ hist.call.pc > ProgramStart
    /\ vm.pc = hist.call.pc + 2

\* a return matched a call with other instructions executed between them
C2_WitnessApart ==
    /\ Executed("_0x00ee")
    /\ hist.call.state = "returned"
    /\ decode(prev.op) # "_2nnn"
    /\ vm.sp = hist.call.sp

----------------------------------------------------------------------------
(* C3  Program counter range at the fetch *)

\* C3: a cycle that begins with the program counter outside 0x200..4095 ends
\* in a bound error and fetches nothing.
C3_FetchInProgramArea ==
    (Cycled /\ prev.pc \notin ProgramStart..(MemSize - 1))
        => vm.status = "bounds" /\ vm.op = prev.op

\* the part of C3 the code keeps: a program counter past the end of memory is
\* a bound error
C3_FetchPastEndPanics ==
    (Cycled /\ prev.pc >= MemSize) => vm.status = "bounds" /\ vm.op = prev.op

----------------------------------------------------------------------------
(* C4  The glyph table *)

\* C4: memory[0..80) holds the glyph table in every reachable state.
C4_FontIntact ==
    \A a \in 0..(FontSize - 1) : MemRead(vm.memory, a) = FONT_BITMAP[a + 1]

----------------------------------------------------------------------------
(* C5  Decoding is total *)

\* C5: every fetched word either runs one handler or ends in the decode
\* error; no word is silently skipped with the machine left as it was.
C5_NoSilentNop ==
    Fetched => decode(vm.op) # "nop"

\* where the code does skip a word silently, it leaves the machine unchanged
\* apart from the op field
C5_NopLeavesMachine ==
    Executed("nop") => vm = [prev EXCEPT !.op = vm.op]

----------------------------------------------------------------------------
(* C6  Store registers, load registers *)

\* C6: store-registers Vx with index + x <= 4096 copies V0..V(x-1) to
\* memory[index..index+x) and changes no other byte; a later load-registers
\* Vx, with the index and those bytes unchanged since the store, restores
\* V0..V(x-1) to the stored values and leaves Vx..VF as they were.
C6_StoreLoadRoundTrip ==
    LET x == FieldX(vm.op)
    IN  /\ (Executed("_fx55") /\ prev.i + x <= MemSize)
               => /\ Running
                  /\ \A r \in 0..(x - 1) : MemRead(vm.memory, prev.i + r) = prev.v[r]
                  /\ \A a \in 0..(MemSize - 1) :
                         a \notin prev.i..(prev.i + x - 1)
                             => MemRead(vm.memory, a) = MemRead(prev.memory, a)
        /\ (Executed("_fx65") /\ hist.store.valid /\ hist.store.x = x)
               => /\ Running
                  /\ \A r \in 0..(x - 1) : vm.v[r] = hist.store.v[r]
                  /\ \A r \in x..(NumRegs - 1) : vm.v[r] = prev.v[r]

\* three or more registers have been loaded back after a store, two of them
\* changed in between
C6_Witness ==
    /\ Executed("_fx65")
    /\ hist.store.valid
    /\ hist.store.x = FieldX(vm.op)
    /\ hist.store.x >= 3
    /\ prev.v[0] # hist.store.v[0]
    /\ prev.v[2] # hist.store.v[2]
    /\ vm.v[0] = hist.store.v[0]
    /\ vm.v[3] # hist.store.v[3]

----------------------------------------------------------------------------
(* C7, C8  Draw *)

\* the (row, column) pairs of the set bits of the sprite of height n at s.i
SpriteBits(s, n) ==
    { rc \in (0..(n - 1)) \X (0..7) :
        (MemRead(s.memory, s.i + rc[1]) \div (2 ^ (7 - rc[2]))) % 2 = 1 }

\* the cells the draw instruction op, run from VM s, gives a set bit to
SpriteCells(s, op) ==
    { ((s.v[FieldY(op)] + rc[1]) % 32) * 64 + ((s.v[FieldX(op)] + rc[2]) % 64) :
        rc \in SpriteBits(s, op % 16) }

\* this step is the second of two executions in a row of one draw instruction
\* with height 1..15 and position registers other than VF
DoubleDraw ==
    /\ Executed("_dxyn")
    /\ Running
    /\ prev'.status # "none"
    /\ fetch_in_bounds(vm)
    /\ fetch(vm) = vm.op
    /\ FieldX(vm.op) # 15
    /\ FieldY(vm.op) # 15
    /\ vm.op % 16 >= 1

\* C7, as claimed: the second draw restores the framebuffer, and sets VF to 1
\* whenever the sprite has a set bit.
C7_DoubleDrawAsClaimed ==
    [][DoubleDraw =>
          /\ vm'.display = prev.display
          /\ SpriteBits(vm, vm.op % 16) # {} => vm'.v[15] = 1]_vars

\* C7, amended: the second draw restores the framebuffer, and sets VF to 1
\* iff a set bit of the sprite falls on a cell that was unlit before the first
\* draw (to 0 otherwise).
C7_DoubleDrawRestores ==
    [][DoubleDraw =>
          /\ vm'.status = "running"
          /\ vm'.display = prev.display
          /\ vm'.v[15] = IF SpriteCells(vm, vm.op) \ prev.display # {} THEN 1 ELSE 0]_vars

\* the second of two equal draws in a row has run: the first one collided, the
\* second one lit the cells again and left VF = 0 with a sprite that has bits
C7_Witness ==
    /\ Executed("_dxyn")
    /\ Running
    /\ prev.op = vm.op
    /\ prev.status = "running"
    /\ FieldX(vm.op) # 15
    /\ FieldY(vm.op) # 15
    /\ vm.op % 16 >= 1
    /\ prev.v[15] = 1
    /\ SpriteBits(prev, vm.op % 16) # {}
    /\ vm.v[15] = 0
    /\ vm.display # {}

\* C8: a draw whose sprite rows lie in memory XORs each set sprite bit
\* (row, col) into the cell ((Vy + row) mod 32) * 64 + ((Vx + col) mod 64), an
\* index inside the framebuffer, leaves every other cell unchanged, sets VF to
\* 1 iff a lit cell received a set bit (to 0 otherwise), and sets the redraw
\* flag.
C8_DrawSprite ==
    (Executed("_dxyn") /\ prev.i + (vm.op % 16) <= MemSize)
        => LET cells == SpriteCells(prev, vm.op)
           IN  /\ Running
               /\ cells \subseteq 0..(DisplaySize - 1)
               /\ vm.display = (prev.display \ cells) \cup (cells \ prev.display)
               /\ vm.v[15] = IF cells \cap prev.display # {} THEN 1 ELSE 0
               /\ vm.drawflag = TRUE

\* a draw on a lit framebuffer has wrapped past the right and the bottom edge
\* and collided
C8_Witness ==
    /\ Executed("_dxyn")
    /\ Running
    /\ prev.v[FieldX(vm.op)] % 64 > 56
    /\ (prev.v[FieldY(vm.op)] % 32) + (vm.op % 16) > 32
    /\ \E c \in prev.display : c < 8
    /\ \E c \in prev.display : c % 64 > 56
    /\ vm.v[15] = 1

\* a draw of a sprite without set bits changes no cell and still sets the
\* redraw flag
C8_WitnessNoChange ==
    /\ Executed("_dxyn")
    /\ Running
    /\ vm.op % 16 >= 1
    /\ vm.display = prev.display
    /\ ~prev.drawflag
    /\ vm.drawflag

----------------------------------------------------------------------------
(* C9  ADD, SUB, SUBN *)

\* the ADD and SUB parts of C9
C9_AddSub ==
    LET x  == FieldX(vm.op)
        y  == FieldY(vm.op)
        vx == prev.v[x]
        vy == prev.v[y]
    IN  (Fetched /\ x # 15 /\ y # 15)
            => /\ decode(vm.op) = "_8xy4"
                   => /\ vm.v[x] = (vx + vy) % 256
                      /\ vm.v[15] = IF vx + vy > 255 THEN 1 ELSE 0
               /\ decode(vm.op) = "_8xy5"
                   => /\ vm.v[x] = (vx - vy) % 256
                      /\ vm.v[15] = IF vx >= vy THEN 1 ELSE 0

\* the SUBN part of C9
C9_Subn ==
    LET x  == FieldX(vm.op)
        y  == FieldY(vm.op)
        vx == prev.v[x]
        vy == prev.v[y]
    IN  (Executed("_8xy7") /\ x # 15 /\ y # 15)
            => /\ vm.v[x] = (vy - vx) % 256
               /\ vm.v[15] = IF vy >= vx THEN 1 ELSE 0

\* C9: with x and y other than 0xF, ADD leaves Vx = (Vx + Vy) mod 256 and VF = 1
\* iff Vx + Vy > 255; SUB leaves Vx = (Vx - Vy) mod 256 and VF = 1 iff
\* Vx >= Vy; SUBN leaves Vx = (Vy - Vx) mod 256 and VF = 1 iff Vy >= Vx.
C9_AddSubSubn == C9_AddSub /\ C9_Subn

\* what SUBN does in the code: VF = 1 iff Vy > Vx
C9_SubnStrict ==
    LET x  == FieldX(vm.op)
        y  == FieldY(vm.op)
        vx == prev.v[x]
        vy == prev.v[y]
    IN  (Executed("_8xy7") /\ x # 15 /\ y # 15)
            => /\ vm.v[x] = (vy - vx) % 256
               /\ vm.v[15] = IF vy > vx THEN 1 ELSE 0

----------------------------------------------------------------------------
(* C10  Clear screen *)

\* C10: clear-screen sets every framebuffer cell to 0, advances the program
\* counter by 2 and leaves the registers, the index, the stack, the stack
\* pointer, both timers, memory and the keypad unchanged.
C10_ClearScreen ==
    Executed("_0x00e0")
        => /\ Running
           /\ \A c \in 0..(DisplaySize - 1) : Pixel(vm.display, c) = 0
           /\ vm.pc = prev.pc + 2
           /\ vm.v = prev.v
           /\ vm.i = prev.i
           /\ vm.stack = prev.stack
           /\ vm.sp = prev.sp
           /\ vm.delay = prev.delay
           /\ vm.sound = prev.sound
           /\ vm.memory = prev.memory
           /\ vm.keypad = prev.keypad

\* clear-screen has run on a lit framebuffer, with a register set and a key
\* held down
C10_Witness ==
    /\ Executed("_0x00e0")
    /\ prev.display # {}
    /\ vm.display = {}
    /\ prev.v[0] # 0
    /\ \E k \in 0..(NumKeys - 1) : prev.keypad[k]

----------------------------------------------------------------------------
(* C11, C12  Timers *)

\* C11: every timer tick decrements each of the delay timer and the sound
\* timer that is greater than 0 by exactly 1, and leaves a timer that is 0 at
\* 0.
C11_TickDecrementsTimers ==
    [][TimerTick =>
          /\ vm'.delay = IF vm.delay > 0 THEN vm.delay - 1 ELSE 0
          /\ vm'.sound = IF vm.sound > 0 THEN vm.sound - 1 ELSE 0]_vars

\* the delay half of C11
C11_TickDecrementsDelay ==
    [][TimerTick => vm'.delay = IF vm.delay > 0 THEN vm.delay - 1 ELSE 0]_vars

\* what the tick does to the sound timer in the code: nothing
C11_TickLeavesSound ==
    [][TimerTick => vm'.sound = vm.sound]_vars

\* C12: the delay timer is changed by the timer tick and by set-delay-timer
\* only: after a set-delay-timer of value k its value is k less the number of
\* ticks since (0 from k ticks on), whatever the number of cycles run between
\* the ticks, and a cycle of any other instruction leaves it as it was.
C12_DelayCountsTicksOnly ==
    /\ hist.timer.valid
           => vm.delay = IF hist.timer.ticks >= hist.timer.set
                         THEN 0
                         ELSE hist.timer.set - hist.timer.ticks
    /\ (Fetched /\ decode(vm.op) # "_fx15") => vm.delay = prev.delay

\* the second tick after a set-delay-timer of 3 has just been taken, with two
\* or more cycles run between it and the first: the timer is at 1
C12_Witness ==
    /\ hist.timer.valid
    /\ hist.timer.set = 3
    /\ hist.timer.ticks = 2
    /\ hist.timer.between >= 2
    /\ hist.timer.cycles = 0
    /\ ~Cycled
    /\ vm.delay = 1

----------------------------------------------------------------------------
(* C13, C14  Skips on two registers *)

\* C13: skip-if-registers-equal (5xy0) advances the program counter by 4 iff
\* V[x] = V[y], and by 2 otherwise, whether or not x = y.
C13_SkipIfRegistersEqual ==
    Executed("_5xy0")
        => /\ Running
           /\ vm.pc = prev.pc + (IF prev.v[FieldX(vm.op)] = prev.v[FieldY(vm.op)]
                                 THEN 4
                                 ELSE 2)

\* what 5xy0 does in the code: it skips iff x = y
C13_SkipIfIndicesEqual ==
    Executed("_5xy0")
        => vm.pc = prev.pc + (IF FieldX(vm.op) = FieldY(vm.op) THEN 4 ELSE 2)

\* C14: skip-if-registers-differ (9xy0) advances the program counter by 4 iff
\* V[x] # V[y], and by 2 iff V[x] = V[y].
C14_SkipIfRegistersDiffer ==
    Executed("_9xy0")
        => /\ Running
           /\ vm.pc = prev.pc + (IF prev.v[FieldX(vm.op)] # prev.v[FieldY(vm.op)]
                                 THEN 4
                                 ELSE 2)

\* what 9xy0 does in the code: it skips iff V[x] = V[y]
C14_SkipIfRegistersSame ==
    Executed("_9xy0")
        => vm.pc = prev.pc + (IF prev.v[FieldX(vm.op)] = prev.v[FieldY(vm.op)]
                              THEN 4
                              ELSE 2)

----------------------------------------------------------------------------
(* C15, C16  Shifts *)

\* C15: with x other than 0xF (x = y included) and v the value of V[y] before
\* the instruction, SHR leaves V[x] = v div 2 and V[0xF] = v mod 2.
C15_ShiftRight ==
    LET x == FieldX(vm.op)
        v == prev.v[FieldY(vm.op)]
    IN  (Executed("_8xy6") /\ x # 15)
            => /\ Running
               /\ vm.v[x] = v \div 2
               /\ vm.v[15] = v % 2

\* C15 with x # y: the flag is read from a register the shift has not written
C15_ShiftRightApart ==
    LET x == FieldX(vm.op)
        v == prev.v[FieldY(vm.op)]
    IN  (Executed("_8xy6") /\ x # 15 /\ x # FieldY(vm.op))
            => /\ Running
               /\ vm.v[x] = v \div 2
               /\ vm.v[15] = v % 2

\* the last cycle fetched the word 8xyE, the encoding of SHL
FetchedShl == Fetched /\ vm.op \div 4096 = 8 /\ vm.op % 16 = 14

\* C16: with x other than 0xF and v the value of V[y] before the instruction,
\* SHL (the word 8xyE, the handler _8xye) leaves V[x] = (2 * v) mod 256 and
\* V[0xF] = 1 if v >= 128, 0 otherwise.
C16_ShiftLeft ==
    LET x == FieldX(vm.op)
        v == prev.v[FieldY(vm.op)]
    IN  ((FetchedShl \/ Executed("_8xye")) /\ x # 15)
            => /\ Running
               /\ vm.v[x] = (2 * v) % 256
               /\ vm.v[15] = IF v >= 128 THEN 1 ELSE 0

\* what the word 8xyE does in the code: nothing, the program counter stays
C16_ShlWordIgnored ==
    FetchedShl => vm = [prev EXCEPT !.op = vm.op]

\* what the handler _8xye, run for the word 8xy8, does with x # y and x # 0xF:
\* the result is right, the flag is v masked with 0x80, that is 0 or 128
C16_HandlerFlagIsMask ==
    LET x == FieldX(vm.op)
        v == prev.v[FieldY(vm.op)]
    IN  (Executed("_8xye") /\ x # 15 /\ x # FieldY(vm.op))
            => /\ vm.op % 16 = 8
               /\ vm.v[x] = (2 * v) % 256
               /\ vm.v[15] = IF v >= 128 THEN 128 ELSE 0

----------------------------------------------------------------------------
(* C17  Wait for key *)

\* the keys held down in the VM s
PressedKeys(s) == { k \in 0..(NumKeys - 1) : s.keypad[k] }

\* C17: one execution of wait-for-key (Fx0A) with no key pressed leaves the
\* program counter and all other state unchanged; with one or more keys
\* pressed it sets V[x] to the pressed key's boolean as a byte and advances the
\* program counter by exactly 2, however many keys are pressed.
C17_WaitForKey ==
    Executed("_fx0a")
        => IF PressedKeys(prev) = {}
           THEN vm = [prev EXCEPT !.op = vm.op]
           ELSE /\ Running
                /\ vm.pc = prev.pc + 2
                /\ vm.v = [prev.v EXCEPT ![FieldX(vm.op)] = 1]

\* C17 where it holds in the code: no key pressed and V[x] < 16, or exactly one
\* key pressed
C17_WaitForKeyOneKey ==
    /\ (Executed("_fx0a") /\ PressedKeys(prev) = {} /\ prev.v[FieldX(vm.op)] < NumKeys)
           => vm = [prev EXCEPT !.op = vm.op]
    /\ (Executed("_fx0a") /\ Cardinality(PressedKeys(prev)) = 1)
           => /\ Running
              /\ vm.pc = prev.pc + 2
              /\ vm.v = [prev.v EXCEPT ![FieldX(vm.op)] = 1]

\* what Fx0A does in the code: it advances once for every key pressed, and
\* panics on the index V[x] >= 16 when no key is pressed
C17_AdvancePerKey ==
    Executed("_fx0a")
        => /\ Running => vm.pc = prev.pc + 2 * Cardinality(PressedKeys(prev))
           /\ ~Running <=> (PressedKeys(prev) = {} /\ prev.v[FieldX(vm.op)] >= NumKeys)

----------------------------------------------------------------------------
(* C18, C19  Redraw flag and render *)

\* C18: after an instruction that changed a framebuffer cell the redraw flag
\* is true, and only draw-sprite and clear-screen change a framebuffer cell.
C18_FramebufferChangeSetsFlag ==
    (Fetched /\ vm.display # prev.display)
        => /\ decode(vm.op) \in {"_dxyn", "_0x00e0"}
           /\ Running => vm.drawflag

\* clear-screen has changed a lit framebuffer, and the redraw flag is true
C18_Witness ==
    /\ Executed("_0x00e0")
    /\ Running
    /\ vm.display # prev.display
    /\ vm.drawflag

\* a draw has changed the framebuffer with the redraw flag false before it
C18_WitnessDraw ==
    /\ Executed("_dxyn")
    /\ Running
    /\ vm.display # prev.display
    /\ ~prev.drawflag
    /\ vm.drawflag

\* the redraw flag is never false on a lit framebuffer, and no cycle turns it
\* from true to false: clear-screen finds it true whenever it changes a cell
C18_FlagStaysSet ==
    /\ Running /\ vm.display # {} => vm.drawflag
    /\ Cycled /\ prev.drawflag /\ Running => vm.drawflag

\* C19: the driver renders once per redraw flag observed true: the flag is
\* false right after the render, so every render follows an instruction that
\* set the flag in the cycle just run.
C19_RenderOncePerFlag ==
    canvas.presented
        => /\ ~vm.drawflag
           /\ Executed("_dxyn") \/ Executed("_0x00e0")

\* what the driver does in the code: the render shows the framebuffer and
\* leaves the flag true, so from the first draw on every cycle renders
C19_RendersEveryCycle ==
    /\ canvas.presented => (vm.drawflag /\ canvas.frame = vm.display)
    /\ (Cycled /\ prev.drawflag /\ Running) => canvas.presented

----------------------------------------------------------------------------
(* C20  The flag register is written last *)

\* the flag the instruction of the last cycle is to leave in V[0xF], from the
\* operands vx and vy read before any write
FlagOf(arm, vx, vy) ==
    CASE arm = "_8xy4" -> IF vx + vy > 255 THEN 1 ELSE 0
      [] arm = "_8xy5" -> IF vx >= vy THEN 1 ELSE 0
      [] arm = "_8xy7" -> IF vy >= vx THEN 1 ELSE 0
      [] arm = "_8xy6" -> vy % 2
      [] arm = "_8xye" -> IF vy >= 128 THEN 1 ELSE 0

\* C20: after ADD, SUB, SUBN, SHR and SHL, for every x (0xF included) and every
\* y, V[0xF] holds the carry / not-borrow / shifted-out flag computed from the
\* operand values read before any write.
C20_FlagWrittenLast ==
    LET arm == IF FetchedShl THEN "_8xye" ELSE decode(vm.op)
    IN  (Fetched /\ arm \in {"_8xy4", "_8xy5", "_8xy7", "_8xy6", "_8xye"})
            => /\ Running
               /\ vm.v[15] = FlagOf(arm, prev.v[FieldX(vm.op)], prev.v[FieldY(vm.op)])

\* C20 for ADD and SUB with x = 0xF, where the code's flags are right for every
\* other x
C20_FlagWrittenLastAtVF ==
    LET arm == decode(vm.op)
    IN  (Fetched /\ arm \in {"_8xy4", "_8xy5"} /\ FieldX(vm.op) = 15)
            => vm.v[15] = FlagOf(arm, prev.v[15], prev.v[FieldY(vm.op)])

\* what ADD, SUB and SUBN with x = 0xF leave in V[0xF] in the code: the
\* arithmetic result, written after the flag
C20_ResultOverwritesFlag ==
    LET arm == decode(vm.op)
        vx  == prev.v[15]
        vy  == prev.v[FieldY(vm.op)]
    IN  (Fetched /\ FieldX(vm.op) = 15 /\ FieldY(vm.op) # 15)
            => /\ arm = "_8xy4" => vm.v[15] = (vx + vy) % 256
               /\ arm = "_8xy5" => vm.v[15] = (vx - vy) % 256
               /\ arm = "_8xy7" => vm.v[15] = (vy - (IF vy > vx THEN 1 ELSE 0)) % 256

====
